---------------------------- MODULE Spec2Model ----------------------------
(***************************************************************************)
(* A model of the IMP parser (interpreter/imp_parser.py): the grammar      *)
(* layer built from parser combinators, the precedence engine, and the     *)
(* top-level entry imp_parse.                                              *)
(*                                                                         *)
(* A parser object is a record (the Python instance and its fields); the   *)
(* operator Call interprets a parser object on (tokens, pos), as           *)
(* Parser.__call__ does.  Python values are records tagged by their type   *)
(* in field t.  Positions are 0-based as in the source; the token at       *)
(* position pos is tokens[pos + 1].                                        *)
(***************************************************************************)
EXTENDS Integers, Sequences, FiniteSets, TLC

VARIABLES tokens, src, entry, start, result, cache, pc

vars == <<tokens, src, entry, start, result, cache, pc>>

----------------------------------------------------------------------------
(* Python values *)

None == [t |-> "None"]

PyStr(s) == [t |-> "str", s |-> s]

PyInt(i) == [t |-> "int", i |-> i]

PyTuple(a, b) == [t |-> "tuple", a |-> a, b |-> b]

Fn(name) == [t |-> "fn", name |-> name, env |-> None]

Closure(name, env) == [t |-> "fn", name |-> name, env |-> env]

Exc(name) == [t |-> "exc", name |-> name]

IsExc(v) == v.t = "exc"

(* (a, b) = v: the unpacking of v into two targets, as the pair of the two *)
(* items.  A tuple of the model is a pair; a string is iterated character  *)
(* by character and must have exactly two; any other value is not         *)
(* iterable.                                                               *)
Unpack(v) ==
    CASE v.t = "tuple" -> v
      [] v.t = "str" ->
           IF Len(v.s) = 2
           THEN PyTuple(PyStr(SubSeq(v.s, 1, 1)), PyStr(SubSeq(v.s, 2, 2)))
           ELSE Exc("ValueError")
      [] OTHER -> Exc("TypeError")

(* v[1]: the second item of a tuple or the second character of a string *)
Subscript1(v) ==
    CASE v.t = "tuple" -> v.b
      [] v.t = "str" ->
           IF Len(v.s) >= 2 THEN PyStr(SubSeq(v.s, 2, 2)) ELSE Exc("IndexError")
      [] OTHER -> Exc("TypeError")

(* Python truthiness of the values that occur: None, 0 and "" are false. *)
Truthy(v) ==
    CASE v.t = "None" -> FALSE
      [] v.t = "int" -> v.i # 0
      [] v.t = "str" -> v.s # ""
      [] OTHER -> TRUE

Digit ==
    ("0" :> 0) @@ ("1" :> 1) @@ ("2" :> 2) @@ ("3" :> 3) @@ ("4" :> 4)
    @@ ("5" :> 5) @@ ("6" :> 6) @@ ("7" :> 7) @@ ("8" :> 8) @@ ("9" :> 9)

(* The characters int() skips around a numeral, of those a string can     *)
(* hold (code points up to 255): space, tab, line feed, vertical tab      *)
(* (code 11), form feed, carriage return, next line (code 133) and        *)
(* no-break space (code 160).  The last three have no escape and stand    *)
(* in the text as themselves.                                             *)
VerticalTab == ""
NextLine == ""
NoBreakSpace == " "
Whitespace ==
    {" ", "\t", "\n", VerticalTab, "\f", "\r", NextLine, NoBreakSpace}

RECURSIVE LStrip(_)
LStrip(s) ==
    IF s # "" /\ Head(s) \in Whitespace THEN LStrip(Tail(s)) ELSE s

RECURSIVE RStrip(_)
RStrip(s) ==
    IF s # "" /\ SubSeq(s, Len(s), Len(s)) \in Whitespace
    THEN RStrip(SubSeq(s, 1, Len(s) - 1))
    ELSE s

RECURSIVE DecimalValue(_, _, _)
(* The value of the rest s of a decimal numeral whose digits so far have   *)
(* the value acc, -1 when it is none: digits, with single underscores      *)
(* between digits; after_digit tells that the character before s is a      *)
(* digit.                                                                  *)
DecimalValue(s, acc, after_digit) ==
    IF s = "" THEN (IF after_digit THEN acc ELSE -1)
    ELSE IF Head(s) \in DOMAIN Digit
         THEN DecimalValue(Tail(s), acc * 10 + Digit[Head(s)], TRUE)
    ELSE IF Head(s) = "_" /\ after_digit THEN DecimalValue(Tail(s), acc, FALSE)
    ELSE -1

(* int(v): an int is returned as it is; a string is read as a decimal      *)
(* numeral, white space around it and a sign before it allowed, and raises *)
(* ValueError when it is none; any other value raises TypeError.           *)
int(v) ==
    CASE v.t = "int" -> v
      [] v.t = "str" ->
           LET s == RStrip(LStrip(v.s))
               signed == s # "" /\ Head(s) \in {"+", "-"}
               n == DecimalValue(IF signed THEN Tail(s) ELSE s, 0, FALSE)
           IN  IF n < 0 THEN Exc("ValueError")
               ELSE IF signed /\ Head(s) = "-" THEN PyInt(0 - n)
               ELSE PyInt(n)
      [] OTHER -> Exc("TypeError")

----------------------------------------------------------------------------
(* Tokens: (text, tag) pairs, tags as the lexer names them *)

RESERVED == "RESERVED"

INT == "INT"

ID == "ID"

Token(text, tag) == <<text, tag>>

----------------------------------------------------------------------------
(* AST constructors *)

IntAexp(i) == [t |-> "IntAexp", i |-> i]

VarAexp(name) == [t |-> "VarAexp", name |-> name]

BinopAexp(op, left, right) ==
    [t |-> "BinopAexp", op |-> op, left |-> left, right |-> right]

RelopBexp(op, left, right) ==
    [t |-> "RelopBexp", op |-> op, left |-> left, right |-> right]

AndBexp(left, right) == [t |-> "AndBexp", left |-> left, right |-> right]

OrBexp(left, right) == [t |-> "OrBexp", left |-> left, right |-> right]

NotBexp(exp) == [t |-> "NotBexp", exp |-> exp]

AssignStatement(name, aexp_) ==
    [t |-> "AssignStatement", name |-> name, aexp |-> aexp_]

CompoundStatement(first, second) ==
    [t |-> "CompoundStatement", first |-> first, second |-> second]

IfStatement(condition, true_stmt, false_stmt) ==
    [t |-> "IfStatement", condition |-> condition,
     true_stmt |-> true_stmt, false_stmt |-> false_stmt]

WhileStatement(condition, body) ==
    [t |-> "WhileStatement", condition |-> condition, body |-> body]

----------------------------------------------------------------------------
(* Parser objects of the combinator library *)

Reserved(value, tag) == [k |-> "Reserved", value |-> value, tag |-> tag]

Tag(tag) == [k |-> "Tag", tag |-> tag]

Concat(left, right) == [k |-> "Concat", left |-> left, right |-> right]

Alternate(left, right) == [k |-> "Alternate", left |-> left, right |-> right]

Opt(parser_) == [k |-> "Opt", parser |-> parser_]

Process(parser_, function) ==
    [k |-> "Process", parser |-> parser_, function |-> function]

Lazy(parser_func) == [k |-> "Lazy", parser_func |-> parser_func]

Phrase(parser_) == [k |-> "Phrase", parser |-> parser_]

Exp(parser_, separator) ==
    [k |-> "Exp", parser |-> parser_, separator |-> separator]

----------------------------------------------------------------------------
(* Functions the grammar hands to Process (the ^ operator).  A nested      *)
(* target list is unpacked from the outside in, and the first unpacking    *)
(* that fails raises.                                                      *)

(* num: lambda i: int(i) *)
num_lambda(i) == int(i)

(* stmt_list: lambda x: lambda l, r: CompoundStatement(l, r) *)
separator_lambda(x) == Closure("separator_combine", None)

(* separator_combine with the two statements exchanged *)
separator_combine_swapped(l, r) == CompoundStatement(r, l)

separator_combine(l, r) == CompoundStatement(l, r)

(* ((name, _), exp) = parsed *)
assign_stmt_process(parsed) ==
    LET u1 == Unpack(parsed)
        u2 == Unpack(u1.a)
    IN  IF IsExc(u1) THEN u1
        ELSE IF IsExc(u2) THEN u2
        ELSE AssignStatement(u2.a, u1.b)

(* if_stmt's process with false_parsed kept as parsed, the pair            *)
(* ('else', statement) not unpacked                                        *)
if_stmt_process_packed(parsed) ==
    LET u1 == Unpack(parsed)
        u2 == Unpack(u1.a)
        u3 == Unpack(u2.a)
        u4 == Unpack(u3.a)
        u5 == Unpack(u4.a)
    IN  IF IsExc(u1) THEN u1
        ELSE IF IsExc(u2) THEN u2
        ELSE IF IsExc(u3) THEN u3
        ELSE IF IsExc(u4) THEN u4
        ELSE IF IsExc(u5) THEN u5
        ELSE IfStatement(u5.b, u3.b, u2.b)

(* (((((_, condition), _), true_stmt), false_parsed), _) = parsed *)
if_stmt_process(parsed) ==
    LET u1 == Unpack(parsed)
        u2 == Unpack(u1.a)
        u3 == Unpack(u2.a)
        u4 == Unpack(u3.a)
        u5 == Unpack(u4.a)
        condition == u5.b
        true_stmt == u3.b
        false_parsed == u2.b
        else_pair == Unpack(false_parsed)
    IN  IF IsExc(u1) THEN u1
        ELSE IF IsExc(u2) THEN u2
        ELSE IF IsExc(u3) THEN u3
        ELSE IF IsExc(u4) THEN u4
        ELSE IF IsExc(u5) THEN u5
        ELSE IF Truthy(false_parsed)
             THEN IF IsExc(else_pair) THEN else_pair
                  ELSE IfStatement(condition, true_stmt, else_pair.b)
             ELSE IfStatement(condition, true_stmt, None)

(* ((((_, condition), _), body), _) = parsed *)
while_stmt_process(parsed) ==
    LET u1 == Unpack(parsed)
        u2 == Unpack(u1.a)
        u3 == Unpack(u2.a)
        u4 == Unpack(u3.a)
    IN  IF IsExc(u1) THEN u1
        ELSE IF IsExc(u2) THEN u2
        ELSE IF IsExc(u3) THEN u3
        ELSE IF IsExc(u4) THEN u4
        ELSE WhileStatement(u4.b, u2.b)

(* bexp_not: lambda parsed: NotBexp(parsed[1]) *)
bexp_not_lambda(parsed) ==
    LET exp == Subscript1(parsed)
    IN  IF IsExc(exp) THEN exp ELSE NotBexp(exp)

(* aexp_value: lambda i: IntAexp(i) and lambda v: VarAexp(v) *)
aexp_value_int(i) == IntAexp(i)

aexp_value_var(v) == VarAexp(v)

(* process_binop(op) returns lambda l, r: BinopAexp(op, l, r) *)
process_binop(op) == Closure("binop_combine", op)

binop_combine(op, l, r) == BinopAexp(op, l, r)

(* ((left, op), right) = parsed *)
process_relop(parsed) ==
    LET u1 == Unpack(parsed)
        u2 == Unpack(u1.a)
    IN  IF IsExc(u1) THEN u1
        ELSE IF IsExc(u2) THEN u2
        ELSE RelopBexp(u2.b, u2.a, u1.b)

(* process_logic with the branch for 'or' missing *)
process_logic_and_only(op) ==
    IF op = PyStr("and") THEN Closure("and_combine", None)
    ELSE IF op.t = "str" THEN Exc("RuntimeError")
    ELSE Exc("TypeError")

(* process_logic(op) returns lambda l, r: AndBexp(l, r) for 'and',        *)
(* lambda l, r: OrBexp(l, r) for 'or', and raises for any other operator:  *)
(* RuntimeError, or TypeError when the message cannot be built because op  *)
(* is no string                                                            *)
process_logic(op) ==
    IF op = PyStr("and") THEN Closure("and_combine", None)
    ELSE IF op = PyStr("or") THEN Closure("or_combine", None)
    ELSE IF op.t = "str" THEN Exc("RuntimeError")
    ELSE Exc("TypeError")

and_combine(l, r) == AndBexp(l, r)

or_combine(l, r) == OrBexp(l, r)

(* ((_, p), _) = parsed *)
process_group(parsed) ==
    LET u1 == Unpack(parsed)
        u2 == Unpack(u1.a)
    IN  IF IsExc(u1) THEN u1
        ELSE IF IsExc(u2) THEN u2
        ELSE u2.b

(* function(value): the call of a one-argument function object *)
Apply(f, v) ==
    CASE f.name = "num_lambda" -> num_lambda(v)
      [] f.name = "separator_lambda" -> separator_lambda(v)
      [] f.name = "assign_stmt_process" -> assign_stmt_process(v)
      [] f.name = "if_stmt_process" -> if_stmt_process(v)
      [] f.name = "while_stmt_process" -> while_stmt_process(v)
      [] f.name = "bexp_not_lambda" -> bexp_not_lambda(v)
      [] f.name = "aexp_value_int" -> aexp_value_int(v)
      [] f.name = "aexp_value_var" -> aexp_value_var(v)
      [] f.name = "process_binop" -> process_binop(v)
      [] f.name = "process_relop" -> process_relop(v)
      [] f.name = "process_logic" -> process_logic(v)
      [] f.name = "process_group" -> process_group(v)
      [] OTHER -> Exc("TypeError")

(* sepfunc(l, r): the call of a two-argument function object, one of the   *)
(* lambdas returned by separator_lambda, process_binop and process_logic   *)
Apply2(f, l, r) ==
    IF f.t # "fn" THEN Exc("TypeError")
    ELSE CASE f.name = "separator_combine" -> separator_combine(l, r)
           [] f.name = "binop_combine" -> binop_combine(f.env, l, r)
           [] f.name = "and_combine" -> and_combine(l, r)
           [] f.name = "or_combine" -> or_combine(l, r)
           [] OTHER -> Exc("TypeError")

----------------------------------------------------------------------------
(* The grammar.  Lazy(f) holds the name of the grammar function f it will  *)
(* call on first use; Supplier below maps the name to the function.        *)

keyword(kw) == Reserved(kw, RESERVED)

num == Process(Tag(INT), Fn("num_lambda"))

id == Tag(ID)

RECURSIVE reduce_alternate(_, _)
(* reduce(lambda l, r: l | r, op_parsers) over the first n parsers *)
reduce_alternate(op_parsers, n) ==
    IF n = 1 THEN op_parsers[1]
    ELSE Alternate(reduce_alternate(op_parsers, n - 1), op_parsers[n])

any_operator_in_list(ops) ==
    LET op_parsers == [i \in 1..Len(ops) |-> keyword(ops[i])]
    IN  reduce_alternate(op_parsers, Len(ops))

op_parser(precedence_level, combine) ==
    Process(any_operator_in_list(precedence_level), combine)

RECURSIVE precedence_loop(_, _, _, _)
(* for precedence_level in precedence_levels[1:]: parser = parser * ... *)
precedence_loop(parser_, precedence_levels, i, combine) ==
    IF i > Len(precedence_levels) THEN parser_
    ELSE precedence_loop(Exp(parser_, op_parser(precedence_levels[i], combine)),
                         precedence_levels, i + 1, combine)

precedence(value_parser, precedence_levels, combine) ==
    precedence_loop(Exp(value_parser, op_parser(precedence_levels[1], combine)),
                    precedence_levels, 2, combine)

(* The precedence levels listed in the opposite order *)
aexp_levels_swapped == << <<"+", "-">>, <<"*", "/">> >>

bexp_levels_swapped == << <<"or">>, <<"and">> >>

aexp_precedence_levels == << <<"*", "/">>, <<"+", "-">> >>

bexp_precedence_levels == << <<"and">>, <<"or">> >>

(* Arithmetic expressions *)
aexp_value ==
    Alternate(Process(num, Fn("aexp_value_int")),
              Process(id, Fn("aexp_value_var")))

(* aexp_group with the reference to aexp ahead of the opening parenthesis *)
aexp_group_left_recursive ==
    Process(Concat(Concat(Lazy("aexp"), keyword("(")), keyword(")")),
            Fn("process_group"))

aexp_group ==
    Process(Concat(Concat(keyword("("), Lazy("aexp")), keyword(")")),
            Fn("process_group"))

aexp_term == Alternate(aexp_value, aexp_group)

aexp == precedence(aexp_term, aexp_precedence_levels, Fn("process_binop"))

(* Boolean expressions *)
relops == <<"<", "<=", ">", ">=", "=", "!=">>

bexp_relop ==
    Process(Concat(Concat(aexp, any_operator_in_list(relops)), aexp),
            Fn("process_relop"))

bexp_not ==
    Process(Concat(keyword("not"), Lazy("bexp_term")), Fn("bexp_not_lambda"))

bexp_group ==
    Process(Concat(Concat(keyword("("), Lazy("bexp")), keyword(")")),
            Fn("process_group"))

(* bexp_term without its last alternative *)
bexp_term_ungrouped == Alternate(bexp_not, bexp_relop)

bexp_term == Alternate(Alternate(bexp_not, bexp_relop), bexp_group)

bexp == precedence(bexp_term, bexp_precedence_levels, Fn("process_logic"))

(* Statements *)
assign_stmt ==
    Process(Concat(Concat(id, keyword(":=")), aexp), Fn("assign_stmt_process"))

if_stmt ==
    Process(Concat(Concat(Concat(Concat(Concat(keyword("if"), bexp),
                                               keyword("then")),
                                        Lazy("stmt_list")),
                                 Opt(Concat(keyword("else"), Lazy("stmt_list")))),
                   keyword("end")),
            Fn("if_stmt_process"))

while_stmt ==
    Process(Concat(Concat(Concat(Concat(keyword("while"), bexp),
                                        keyword("do")),
                                 Lazy("stmt_list")),
                   keyword("end")),
            Fn("while_stmt_process"))

stmt == Alternate(Alternate(assign_stmt, if_stmt), while_stmt)

stmt_list ==
    LET separator == Process(keyword(";"), Fn("separator_lambda"))
    IN  Exp(stmt, separator)

(* parser() without the Phrase around stmt_list() *)
parser_unphrased == stmt_list

(* Top level parser *)
parser == Phrase(stmt_list)

(* The grammar function a Lazy object names *)
Supplier(parser_func) ==
    CASE parser_func = "stmt_list" -> stmt_list
      [] parser_func = "bexp_term" -> bexp_term
      [] parser_func = "bexp" -> bexp
      [] parser_func = "aexp" -> aexp

----------------------------------------------------------------------------
(* Parser.__call__(tokens, pos) for each combinator.                       *)
(*                                                                         *)
(* A call returns [none, res, exc, cache]: res is None or a Result, none   *)
(* tells whether res is None (it is what `if result:` tests), exc names a  *)
(* raised exception ("" when the call returned; "diverge" when it never    *)
(* returns), cache is the state of the Lazy objects after the call.        *)
(* path identifies the parser object called: the way from the root object  *)
(* to it (1: left / parser, 2: right / separator, 0: the parser a Lazy     *)
(* resolved).  cache maps the path of each resolved Lazy object to the     *)
(* parser it holds.  active is the set of (grammar function, position)     *)
(* pairs of the Lazy calls in progress.                                    *)

Result(value, pos) == [t |-> "Result", value |-> value, pos |-> pos]

Return(res, c) == [none |-> res = None, res |-> res, exc |-> "", cache |-> c]

Raise(e, c) == [none |-> TRUE, res |-> None, exc |-> e, cache |-> c]

EmptyCache == <<>>

RECURSIVE Call(_, _, _, _, _, _)
RECURSIVE ExpLoop(_, _, _, _, _, _)

(* Reserved returning the position it was given instead of the next one *)
CallReservedInPlace(p, toks, pos, c) ==
    IF /\ pos < Len(toks)
       /\ toks[pos + 1][1] = p.value
       /\ toks[pos + 1][2] = p.tag
    THEN Return(Result(PyStr(toks[pos + 1][1]), pos), c)
    ELSE Return(None, c)

CallReserved(p, toks, pos, c) ==
    IF /\ pos < Len(toks)
       /\ toks[pos + 1][1] = p.value
       /\ toks[pos + 1][2] = p.tag
    THEN Return(Result(PyStr(toks[pos + 1][1]), pos + 1), c)
    ELSE Return(None, c)

CallTag(p, toks, pos, c) ==
    IF pos < Len(toks) /\ toks[pos + 1][2] = p.tag
    THEN Return(Result(PyStr(toks[pos + 1][1]), pos + 1), c)
    ELSE Return(None, c)

(* Lazy keeping the parser it built in a field of the class, which all    *)
(* Lazy objects share, instead of a field of the object                    *)
CallLazyShared(p, toks, pos, path, active, c) ==
    LET resolved == <<>> \in DOMAIN c
        q == IF resolved THEN c[<<>>] ELSE Supplier(p.parser_func)
        c2 == IF resolved THEN c ELSE c @@ (<<>> :> q)
    IN  IF <<p.parser_func, pos>> \in active THEN Raise("diverge", c2)
        ELSE Call(q, toks, pos, Append(path, 0),
                  active \cup {<<p.parser_func, pos>>}, c2)

(* The parser is built by parser_func() on the first call and kept.  A     *)
(* call of a grammar function at a position where a call of it is already  *)
(* in progress repeats itself without end.                                 *)
CallLazy(p, toks, pos, path, active, c) ==
    LET resolved == path \in DOMAIN c
        q == IF resolved THEN c[path] ELSE Supplier(p.parser_func)
        c2 == IF resolved THEN c ELSE c @@ (path :> q)
    IN  IF <<p.parser_func, pos>> \in active THEN Raise("diverge", c2)
        ELSE Call(q, toks, pos, Append(path, 0),
                  active \cup {<<p.parser_func, pos>>}, c2)

(* Exp's process_next: (sepfunc, right) = parsed; sepfunc(result.value, right) *)
process_next(value, parsed) ==
    LET u == Unpack(parsed)
    IN  IF IsExc(u) THEN u ELSE Apply2(u.a, value, u.b)

(* Parser.__call__, by the class of the parser object.  A call that raised *)
(* has res = None as a call that failed has, so the test `if result:` is   *)
(* ~none, and returning the sub-parser's outcome unchanged passes on its   *)
(* failure or its exception.  The arms of an inner CASE are the tests of   *)
(* the method in the order it makes them: an arm is reached when the arms  *)
(* before it did not apply.                                                *)
Call(p, toks, pos, path, active, c) ==
    CASE p.k = "Reserved" -> CallReserved(p, toks, pos, c)
      [] p.k = "Tag" -> CallTag(p, toks, pos, c)
      [] p.k = "Concat" ->
           LET left_result == Call(p.left, toks, pos, Append(path, 1), active, c)
               right_result == Call(p.right, toks, left_result.res.pos,
                                    Append(path, 2), active, left_result.cache)
           IN  CASE left_result.none -> left_result
                 [] right_result.none -> right_result
                 [] OTHER ->
                      Return(Result(PyTuple(left_result.res.value,
                                            right_result.res.value),
                                    right_result.res.pos),
                             right_result.cache)
      [] p.k = "Alternate" ->
           LET left_result == Call(p.left, toks, pos, Append(path, 1), active, c)
           IN  IF left_result.none
               THEN IF left_result.exc # "" THEN left_result
                    ELSE Call(p.right, toks, pos, Append(path, 2), active,
                                  left_result.cache)
               ELSE left_result
      [] p.k = "Opt" ->
           LET r == Call(p.parser, toks, pos, Append(path, 1), active, c)
           IN  IF r.none
               THEN IF r.exc # "" THEN r ELSE Return(Result(None, pos), r.cache)
               ELSE r
      [] p.k = "Process" ->
           LET r == Call(p.parser, toks, pos, Append(path, 1), active, c)
               v == Apply(p.function, r.res.value)
           IN  CASE r.none -> r
                 [] IsExc(v) -> Raise(v.name, r.cache)
                 [] OTHER -> Return(Result(v, r.res.pos), r.cache)
      [] p.k = "Lazy" -> CallLazy(p, toks, pos, path, active, c)
      [] p.k = "Phrase" ->
           LET r == Call(p.parser, toks, pos, Append(path, 1), active, c)
           IN  CASE r.none -> r
                 [] r.res.pos = Len(toks) -> r
                 [] OTHER -> Return(None, r.cache)
      [] p.k = "Exp" ->
           LET first == Call(p.parser, toks, pos, Append(path, 1), active, c)
           IN  IF first.none THEN first
               ELSE ExpLoop(p, toks, first.res, path, active, first.cache)

(* Exp's loop: next_parser = separator + parser ^ process_next is applied  *)
(* at result.pos until it fails.  An iteration that matches without        *)
(* advancing is repeated without end.                                      *)
ExpLoop(p, toks, res, path, active, c) ==
    LET sep == Call(p.separator, toks, res.pos, Append(path, 2), active, c)
        item == Call(p.parser, toks, sep.res.pos, Append(path, 1), active,
                     sep.cache)
        v == process_next(res.value, PyTuple(sep.res.value, item.res.value))
    IN  CASE sep.none -> IF sep.exc # "" THEN sep ELSE Return(res, sep.cache)
          [] item.none -> IF item.exc # "" THEN item ELSE Return(res, item.cache)
          [] IsExc(v) -> Raise(v.name, item.cache)
          [] item.res.pos <= res.pos -> Raise("diverge", item.cache)
          [] OTHER -> ExpLoop(p, toks, Result(v, item.res.pos), path, active,
                              item.cache)

(* What the caller of a parser sees: the value returned or the exception *)
Outcome(r) == [res |-> r.res, exc |-> r.exc]

(* A freshly built parser object p called at pos *)
Fresh(p, toks, pos) == Call(p, toks, pos, <<>>, {}, EmptyCache)

imp_parse(toks) == Fresh(parser, toks, 0)

----------------------------------------------------------------------------
(* Inputs.  The token sequences given to the parsers are the concrete      *)
(* syntax of ASTs of the reference grammar                                 *)
(*    aexp ::= INT | ID | aexp op aexp | ( aexp )                          *)
(*    bexp ::= aexp relop aexp | not bexp | bexp and bexp | bexp or bexp   *)
(*           | ( bexp )                                                    *)
(*    stmt ::= ID := aexp | stmt ; stmt | if bexp then stmt [else stmt] end*)
(*           | while bexp do stmt end                                      *)
(* written with the parentheses the reference grammar's precedence and     *)
(* left association require (or with every operand parenthesized), then    *)
(* possibly damaged: one token removed, or a token appended.               *)

MaxAexpOps == 3

MaxBexpOps == 3

MaxStmts == 4

(* The deepest nesting of an input as written: the most parentheses, nots, *)
(* ifs and whiles around a token                                           *)
MaxNesting == 2

Kw(s) == Token(s, RESERVED)

Hole == [t |-> "Hole"]

(* The operator written at the k-th operator position for a level of     *)
(* aexp_precedence_levels: the two operators of the level take turns       *)
AexpOps == {"*", "+"}

OpAt(level, k) ==
    IF level = PyStr("*")
    THEN (IF k % 2 = 1 THEN PyStr("*") ELSE PyStr("/"))
    ELSE (IF k % 2 = 1 THEN PyStr("+") ELSE PyStr("-"))

(* The k-th leaf of an arithmetic expression, k counted from 0 *)
AexpLeaf(k) ==
    LET leaves == <<IntAexp(PyInt(2)), IntAexp(PyInt(3)), IntAexp(PyInt(4)),
                    VarAexp(PyStr("x")), IntAexp(PyInt(12)), IntAexp(PyInt(7))>>
    IN  leaves[(k % Len(leaves)) + 1]

(* The k-th relational leaf of a boolean expression; the third begins and  *)
(* the fourth ends with a parenthesized arithmetic expression.             *)
BexpLeaf(k) ==
    LET one == IntAexp(PyInt(1))
        two == IntAexp(PyInt(2))
        x == VarAexp(PyStr("x"))
        sum == BinopAexp(PyStr("+"), one, two)
        leaves == <<RelopBexp(PyStr("<"), one, two),
                    RelopBexp(PyStr(">="), x, IntAexp(PyInt(3))),
                    RelopBexp(PyStr("!="), BinopAexp(PyStr("*"), sum, two), x),
                    RelopBexp(PyStr("="), x, BinopAexp(PyStr("-"), two, sum)),
                    RelopBexp(PyStr("<="), BinopAexp(PyStr("/"), x, two), one),
                    RelopBexp(PyStr(">"), two, one)>>
    IN  leaves[(k % Len(leaves)) + 1]

(* The k-th assignment and the k-th condition of a program *)
StmtLeaf(k) ==
    LET x == VarAexp(PyStr("x"))
        leaves == <<AssignStatement(PyStr("x"), IntAexp(PyInt(1))),
                    AssignStatement(PyStr("y"),
                        BinopAexp(PyStr("*"),
                                  BinopAexp(PyStr("+"), x, IntAexp(PyInt(1))),
                                  IntAexp(PyInt(2)))),
                    AssignStatement(PyStr("z"), IntAexp(PyInt(3))),
                    AssignStatement(PyStr("x"),
                        BinopAexp(PyStr("-"), x, VarAexp(PyStr("y"))))>>
    IN  leaves[(k % Len(leaves)) + 1]

CondLeaf(k) ==
    LET r1 == BexpLeaf(0)
        r2 == BexpLeaf(1)
        leaves == <<NotBexp(r2), AndBexp(r1, OrBexp(r2, r1)), r1>>
    IN  leaves[(k % Len(leaves)) + 1]

RECURSIVE AexpShapes(_)
(* The arithmetic expressions with n operators, leaves left open *)
AexpShapes(n) ==
    IF n = 0 THEN {Hole}
    ELSE UNION {{BinopAexp(PyStr(op), l, r) :
                    op \in AexpOps, l \in AexpShapes(i), r \in AexpShapes(n - 1 - i)} :
                i \in 0..(n - 1)}

RECURSIVE BexpShapes(_)
(* The boolean expressions with n connectives, leaves left open *)
BexpShapes(n) ==
    IF n = 0 THEN {Hole}
    ELSE {NotBexp(b) : b \in BexpShapes(n - 1)}
         \cup UNION {{AndBexp(l, r) : l \in BexpShapes(i), r \in BexpShapes(n - 1 - i)} :
                     i \in 0..(n - 1)}
         \cup UNION {{OrBexp(l, r) : l \in BexpShapes(i), r \in BexpShapes(n - 1 - i)} :
                     i \in 0..(n - 1)}

RECURSIVE StmtShapes(_)
RECURSIVE ListShapes(_)
(* The single statements made of n statements in all, leaves left open *)
StmtShapes(n) ==
    IF n = 1 THEN {Hole}
    ELSE {IfStatement(Hole, l, None) : l \in ListShapes(n - 1)}
         \cup {WhileStatement(Hole, l) : l \in ListShapes(n - 1)}
         \cup UNION {{IfStatement(Hole, l, r) :
                         l \in ListShapes(i), r \in ListShapes(n - 1 - i)} :
                     i \in 1..(n - 2)}

(* The statement lists made of n statements in all: s1 ; s2 ; ... ; sk is  *)
(* the left-nested CompoundStatement of its statements.                    *)
ListShapes(n) ==
    StmtShapes(n)
    \cup UNION {{CompoundStatement(l, s) : l \in ListShapes(i), s \in StmtShapes(n - i)} :
                i \in 1..(n - 1)}

RECURSIVE Label(_, _, _)
(* Shape a with its leaves filled in, numbered from k in reading order;    *)
(* sort is "aexp", "bexp" or "stmt".                                       *)
Label(a, k, sort) ==
    CASE a.t = "Hole" ->
           [ast |-> CASE sort = "aexp" -> AexpLeaf(k)
                      [] sort = "bexp" -> BexpLeaf(k)
                      [] sort = "cond" -> CondLeaf(k)
                      [] sort = "stmt" -> StmtLeaf(k),
            next |-> k + 1]
      [] a.t = "None" -> [ast |-> None, next |-> k]
      [] a.t = "BinopAexp" ->
           LET l == Label(a.left, k, sort)
               r == Label(a.right, l.next, sort)
           IN  [ast |-> BinopAexp(OpAt(a.op, l.next), l.ast, r.ast),
                next |-> r.next]
      [] a.t = "NotBexp" ->
           LET e == Label(a.exp, k, sort)
           IN  [ast |-> NotBexp(e.ast), next |-> e.next]
      [] a.t = "AndBexp" ->
           LET l == Label(a.left, k, sort)
               r == Label(a.right, l.next, sort)
           IN  [ast |-> AndBexp(l.ast, r.ast), next |-> r.next]
      [] a.t = "OrBexp" ->
           LET l == Label(a.left, k, sort)
               r == Label(a.right, l.next, sort)
           IN  [ast |-> OrBexp(l.ast, r.ast), next |-> r.next]
      [] a.t = "CompoundStatement" ->
           LET l == Label(a.first, k, sort)
               r == Label(a.second, l.next, sort)
           IN  [ast |-> CompoundStatement(l.ast, r.ast), next |-> r.next]
      [] a.t = "IfStatement" ->
           LET c == Label(a.condition, k, "cond")
               l == Label(a.true_stmt, c.next, sort)
               r == Label(a.false_stmt, l.next, sort)
           IN  [ast |-> IfStatement(c.ast, l.ast, r.ast), next |-> r.next]
      [] a.t = "WhileStatement" ->
           LET c == Label(a.condition, k, "cond")
               l == Label(a.body, c.next, sort)
           IN  [ast |-> WhileStatement(c.ast, l.ast), next |-> l.next]

(* The expressions of the test suite and of the documented examples that   *)
(* the numbered leaves do not produce                                      *)
Rel(op, i, j) == RelopBexp(PyStr(op), IntAexp(PyInt(i)), IntAexp(PyInt(j)))

Bin(op, l, r) == BinopAexp(PyStr(op), l, r)

ExampleAexps ==
    LET two == IntAexp(PyInt(2))
        three == IntAexp(PyInt(3))
        four == IntAexp(PyInt(4))
    IN  {IntAexp(PyInt(12)), VarAexp(PyStr("x")), IntAexp(PyInt(7)),
         Bin("+", Bin("*", two, three), four),
         Bin("+", two, Bin("*", three, four)),
         Bin("*", two, Bin("+", three, four))}

ExampleBexps ==
    {Rel("<", 2, 3), NotBexp(Rel("<", 2, 3)),
     AndBexp(Rel("<", 2, 3), Rel("<", 3, 4)),
     OrBexp(AndBexp(Rel("<", 1, 2), Rel("<", 2, 3)), Rel("<", 3, 4))}

AexpAsts ==
    ExampleAexps
    \cup UNION {{Label(a, 0, "aexp").ast : a \in AexpShapes(n)} : n \in 0..MaxAexpOps}

BexpAsts ==
    ExampleBexps
    \cup UNION {{Label(b, 0, "bexp").ast : b \in BexpShapes(n)} : n \in 0..MaxBexpOps}

ExampleStmts ==
    LET x1 == AssignStatement(PyStr("x"), IntAexp(PyInt(1)))
        y2 == AssignStatement(PyStr("y"), IntAexp(PyInt(2)))
        z3 == AssignStatement(PyStr("z"), IntAexp(PyInt(3)))
    IN  {CompoundStatement(CompoundStatement(x1, y2), z3),
         IfStatement(Rel("<", 1, 2), x1, None),
         IfStatement(Rel("<", 1, 2), x1, y2)}

(* The programs of n statements *)
Programs(n) == {Label(s, 0, "stmt").ast : s \in ListShapes(n)}

StmtAsts == ExampleStmts \cup UNION {Programs(n) : n \in 1..MaxStmts}

(* The programs a token is removed from *)
DamagedAsts == ExampleStmts \cup UNION {Programs(n) : n \in 1..(MaxStmts - 1)}

(* Binding strength in the reference grammar: the larger binds tighter *)
Strength(a) ==
    CASE a.t = "BinopAexp" -> IF a.op.s \in {"*", "/"} THEN 2 ELSE 1
      [] a.t = "OrBexp" -> 1
      [] a.t = "AndBexp" -> 2
      [] OTHER -> 3

(* The numerals the INT tokens of the inputs carry, with their values *)
Numerals ==
    ("0" :> 0) @@ ("1" :> 1) @@ ("2" :> 2) @@ ("3" :> 3) @@ ("4" :> 4)
    @@ ("5" :> 5) @@ ("6" :> 6) @@ ("7" :> 7) @@ ("8" :> 8) @@ ("9" :> 9)
    @@ ("10" :> 10) @@ ("11" :> 11) @@ ("12" :> 12) @@ ("007" :> 7)

NumeralOf(i) == CHOOSE s \in DOMAIN Numerals : Numerals[s] = i

Parens(ts) == <<Kw("(")>> \o ts \o <<Kw(")")>>

RECURSIVE Syntax(_, _)
(* The tokens of AST a.  An operand is parenthesized where the grammar     *)
(* needs it: a left operand that binds looser than its operator, a right   *)
(* operand that does not bind tighter, an and/or under not; with full,     *)
(* every operand of an operator or connective is.                          *)
Syntax(a, full) ==
    LET Operand(b, needed) ==
            IF needed \/ full THEN Parens(Syntax(b, full)) ELSE Syntax(b, full)
    IN  CASE a.t = "IntAexp" -> <<Token(NumeralOf(a.i.i), INT)>>
          [] a.t = "VarAexp" -> <<Token(a.name.s, ID)>>
          [] a.t \in {"BinopAexp"} ->
               Operand(a.left, Strength(a.left) < Strength(a))
               \o <<Kw(a.op.s)>>
               \o Operand(a.right, Strength(a.right) <= Strength(a))
          [] a.t = "RelopBexp" ->
               Syntax(a.left, full) \o <<Kw(a.op.s)>> \o Syntax(a.right, full)
          [] a.t = "NotBexp" ->
               <<Kw("not")>> \o Operand(a.exp, Strength(a.exp) < 3)
          [] a.t = "AndBexp" ->
               Operand(a.left, Strength(a.left) < 2) \o <<Kw("and")>>
               \o Operand(a.right, Strength(a.right) <= 2)
          [] a.t = "OrBexp" ->
               Operand(a.left, FALSE) \o <<Kw("or")>>
               \o Operand(a.right, Strength(a.right) <= 1)
          [] a.t = "AssignStatement" ->
               <<Token(a.name.s, ID), Kw(":=")>> \o Syntax(a.aexp, full)
          [] a.t = "CompoundStatement" ->
               Syntax(a.first, full) \o <<Kw(";")>> \o Syntax(a.second, full)
          [] a.t = "IfStatement" ->
               <<Kw("if")>> \o Syntax(a.condition, full) \o <<Kw("then")>>
               \o Syntax(a.true_stmt, full)
               \o (IF a.false_stmt = None THEN <<>>
                   ELSE <<Kw("else")>> \o Syntax(a.false_stmt, full))
               \o <<Kw("end")>>
          [] a.t = "WhileStatement" ->
               <<Kw("while")>> \o Syntax(a.condition, full) \o <<Kw("do")>>
               \o Syntax(a.body, full) \o <<Kw("end")>>

(* ts without its i-th token (i = 0: ts itself) *)
Without(ts, i) ==
    IF i = 0 THEN ts
    ELSE SubSeq(ts, 1, i - 1) \o SubSeq(ts, i + 1, Len(ts))

(* The tokens a stray token may be: appended to a program, none of them    *)
(* can continue it.                                                        *)
Strays == {Kw(";"), Kw("end"), Kw("then"), Kw(")"), Token("x", ID)}

(* An input: the AST it was written from, how it was written (style "min": *)
(* the parentheses needed, "full": every operand parenthesized, "group":   *)
(* as "min" and the whole expression parenthesized, "nest": as "full" and  *)
(* the whole expression parenthesized), the index of the token removed     *)
(* (0: none) and the tokens appended.  The empty token sequence is the     *)
(* input written from no AST.                                              *)
Input(a, style, drop, extra) ==
    [ast |-> a, style |-> style, drop |-> drop, extra |-> extra]

Written(a, style) ==
    CASE a = None -> <<>>
      [] style = "min" -> Syntax(a, FALSE)
      [] style = "full" -> Syntax(a, TRUE)
      [] style = "group" -> Parens(Syntax(a, FALSE))
      [] style = "nest" -> Parens(Syntax(a, TRUE))

TokensOf(in) == Without(Written(in.ast, in.style), in.drop) \o in.extra

Intact(in) == in.ast # None /\ in.drop = 0 /\ in.extra = <<>>

IsAexp(a) == a.t \in {"IntAexp", "VarAexp", "BinopAexp"}

IsBexp(a) == a.t \in {"RelopBexp", "NotBexp", "AndBexp", "OrBexp"}

IsStmt(a) ==
    a.t \in {"AssignStatement", "CompoundStatement", "IfStatement",
             "WhileStatement"}

(* Every way of writing an input *)
Writings ==
    {Input(a, style, 0, <<>>) : a \in AexpAsts, style \in {"min", "full", "group"}}
    \cup {Input(a, style, 0, <<>>) : a \in BexpAsts, style \in {"min", "group"}}
    \cup {Input(a, "nest", 0, <<>>) : a \in ExampleBexps}
    \cup {Input(a, "min", 0, <<>>) : a \in StmtAsts}
    \cup {Input(a, "min", 0, <<t>>) : a \in StmtAsts, t \in Strays}
    \cup UNION {{Input(a, "min", d, <<>>) : d \in 1..Len(Syntax(a, FALSE))} :
                a \in DamagedAsts}
    \cup {Input(BexpLeaf(k), "min", Len(Syntax(BexpLeaf(k), FALSE)), <<>>) :
             k \in 0..5}
    \cup {Input(None, "min", 0, <<>>)}

RECURSIVE Depth(_, _)
(* The nesting depth of Syntax(a, full): the most parentheses, nots, ifs   *)
(* and whiles that one of its tokens is inside of                          *)
Depth(a, full) ==
    LET Max(x, y) == IF x >= y THEN x ELSE y
        Operand(b, needed) ==
            IF needed \/ full THEN Depth(b, full) + 1 ELSE Depth(b, full)
    IN  CASE a.t \in {"IntAexp", "VarAexp"} -> 0
          [] a.t = "BinopAexp" ->
               Max(Operand(a.left, Strength(a.left) < Strength(a)),
                   Operand(a.right, Strength(a.right) <= Strength(a)))
          [] a.t = "RelopBexp" -> Max(Depth(a.left, full), Depth(a.right, full))
          [] a.t = "NotBexp" -> 1 + Operand(a.exp, Strength(a.exp) < 3)
          [] a.t = "AndBexp" ->
               Max(Operand(a.left, Strength(a.left) < 2),
                   Operand(a.right, Strength(a.right) <= 2))
          [] a.t = "OrBexp" ->
               Max(Operand(a.left, FALSE),
                   Operand(a.right, Strength(a.right) <= 1))
          [] a.t = "AssignStatement" -> Depth(a.aexp, full)
          [] a.t = "CompoundStatement" ->
               Max(Depth(a.first, full), Depth(a.second, full))
          [] a.t = "IfStatement" ->
               1 + Max(Depth(a.condition, full),
                       Max(Depth(a.true_stmt, full),
                           IF a.false_stmt = None THEN 0
                           ELSE Depth(a.false_stmt, full)))
          [] a.t = "WhileStatement" ->
               1 + Max(Depth(a.condition, full), Depth(a.body, full))

(* The nesting depth of Written(a, style) *)
WrittenDepth(a, style) ==
    CASE a = None -> 0
      [] style = "min" -> Depth(a, FALSE)
      [] style = "full" -> Depth(a, TRUE)
      [] style = "group" -> 1 + Depth(a, FALSE)
      [] style = "nest" -> 1 + Depth(a, TRUE)

(* The inputs given to the parsers: those written with a nesting depth of  *)
(* MaxNesting at most                                                      *)
Inputs == {in \in Writings : WrittenDepth(in.ast, in.style) <= MaxNesting}

----------------------------------------------------------------------------
(* The calls.  tokens is the token sequence the caller holds (src: how it  *)
(* was written), entry the parser object called, start the position given, *)
(* result what the call produced.  cache is the Lazy state of a parser     *)
(* object the caller keeps between calls.                                  *)

NotCalled == [res |-> None, exc |-> "not called"]

NoParser == [k |-> "none"]

(* The parsers a caller builds and calls at position 0: parser() inside    *)
(* imp_parse, and the grammar functions' parsers, as the tests do.         *)
TestParsers ==
    {stmt_list, stmt, if_stmt, bexp, bexp_term, bexp_relop, bexp_group, aexp}

Init ==
    /\ src \in Inputs
    /\ tokens = TokensOf(src)
    /\ entry = NoParser
    /\ start = 0
    /\ result = NotCalled
    /\ cache = EmptyCache
    /\ pc = "ready"

(* ast = imp_parse(tokens) *)
ImpParse ==
    /\ pc = "ready"
    /\ LET r == imp_parse(tokens)
       IN  /\ r.exc # "diverge"
           /\ result' = Outcome(r)
    /\ entry' = parser
    /\ start' = 0
    /\ pc' = "done"
    /\ UNCHANGED <<tokens, src, cache>>

(* result = parser(tokens, 0) for the parser a grammar function built *)
ParserTest ==
    /\ pc = "ready"
    /\ \E p \in TestParsers :
          LET r == Fresh(p, tokens, 0)
          IN  /\ r.exc # "diverge"
              /\ result' = Outcome(r)
              /\ entry' = p
    /\ start' = 0
    /\ pc' = "done"
    /\ UNCHANGED <<tokens, src, cache>>

Next == ImpParse \/ ParserTest

Spec == Init /\ [][Next]_vars

(* imp_parse seen as a call and its return: pc = "called" while the call  *)
(* is in progress, result then holding what it is going to return.  A call *)
(* that recurses or loops without end never returns.  The caller's thread  *)
(* runs the call it has made, so a return that can happen does.            *)
ImpParseCall ==
    /\ pc = "ready"
    /\ result' = Outcome(imp_parse(tokens))
    /\ entry' = parser
    /\ start' = 0
    /\ pc' = "called"
    /\ UNCHANGED <<tokens, src, cache>>

ImpParseReturn ==
    /\ pc = "called"
    /\ result.exc # "diverge"
    /\ pc' = "done"
    /\ UNCHANGED <<tokens, src, entry, start, result, cache>>

NextLive == ImpParseCall \/ ImpParseReturn

SpecLive == Init /\ [][NextLive]_vars /\ WF_vars(ImpParseReturn)

----------------------------------------------------------------------------
(* The calls of the sub-parsers.  Every parser object of the grammar, down *)
(* to the keywords, is called at every position of a short input.          *)

MaxSubLen == 7

Children(p) ==
    CASE p.k \in {"Concat", "Alternate"} -> {p.left, p.right}
      [] p.k \in {"Opt", "Process", "Phrase"} -> {p.parser}
      [] p.k = "Exp" -> {p.parser, p.separator}
      [] p.k = "Lazy" -> {Supplier(p.parser_func)}
      [] OTHER -> {}

RECURSIVE Reach(_)
Reach(S) ==
    LET T == S \cup UNION {Children(p) : p \in S}
    IN  IF T = S THEN S ELSE Reach(T)

(* The parser objects parser() builds, those behind a Lazy included *)
AllNodes == Reach({parser})

SubInputs ==
    {in \in Inputs : Len(TokensOf(in)) <= MaxSubLen \/ in.style = "nest"}

SubInit ==
    /\ src \in SubInputs
    /\ tokens = TokensOf(src)
    /\ entry = NoParser
    /\ start = 0
    /\ result = NotCalled
    /\ cache = EmptyCache
    /\ pc = "ready"

(* result = p(tokens, i) for a parser object p of the grammar *)
SubCall ==
    /\ pc = "ready"
    /\ \E p \in AllNodes, i \in 0..Len(tokens) :
          /\ result' = Outcome(Fresh(p, tokens, i))
          /\ entry' = p
          /\ start' = i
    /\ pc' = "done"
    /\ UNCHANGED <<tokens, src, cache>>

NextSub == SubCall

SpecSub == SubInit /\ [][NextSub]_vars

----------------------------------------------------------------------------
(* One grammar object kept and called again: p = parser() once, then       *)
(* p(tokens, 0) for one token sequence after another.  cache is the state  *)
(* of p's Lazy objects, which each call may extend.                        *)

MaxReuseLen == 20

ReuseInputs ==
    {in \in Inputs :
        /\ in.drop = 0
        /\ in.extra \in {<<>>, <<Kw(";")>>}
        /\ in.ast # None => IsStmt(in.ast)
        /\ Len(TokensOf(in)) <= MaxReuseLen}

ReuseInit ==
    /\ src \in ReuseInputs
    /\ tokens = TokensOf(src)
    /\ entry = parser
    /\ start = 0
    /\ result = NotCalled
    /\ cache = EmptyCache
    /\ pc = "ready"

(* result = p(tokens, 0) *)
Reparse ==
    /\ pc = "ready"
    /\ LET r == Call(parser, tokens, 0, <<>>, {}, cache)
       IN  /\ result' = Outcome(r)
           /\ cache' = r.cache
    /\ pc' = "done"
    /\ UNCHANGED <<tokens, src, entry, start>>

(* The caller turns to another token sequence *)
NextTokens ==
    /\ pc = "done"
    /\ src' \in ReuseInputs
    /\ tokens' = TokensOf(src')
    /\ result' = NotCalled
    /\ pc' = "ready"
    /\ UNCHANGED <<entry, start, cache>>

NextReuse == Reparse \/ NextTokens

SpecReuse == ReuseInit /\ [][NextReuse]_vars

----------------------------------------------------------------------------
(* Properties of the calls at position 0 *)

Ok(value, pos) == [res |-> Result(value, pos), exc |-> ""]

Failed == [res |-> None, exc |-> ""]

Succeeded(o) == o.exc = "" /\ o.res # None

IntTok(s) == Token(s, INT)

IdTok(s) == Token(s, ID)

(* C1: imp_parse(tokens) succeeds exactly when stmt_list succeeds at       *)
(* position 0 and stops at len(tokens), and then returns stmt_list's       *)
(* result; when stmt_list fails or matches only a strict prefix, and when  *)
(* the token sequence is empty, it returns the failure value None.         *)
FullPhraseOnly ==
    pc = "done" /\ entry = parser =>
        LET s == Outcome(Fresh(stmt_list, tokens, 0))
        IN  /\ s.exc = ""
            /\ IF Succeeded(s) /\ s.res.pos = Len(tokens)
               THEN result = s
               ELSE result = Failed
            /\ (tokens = <<>> => result = Failed)

(* imp_parse rejected a program followed by a ';' that no statement        *)
(* follows, of which stmt_list matches all but the ';'                     *)
StrictPrefixRejected ==
    /\ pc = "done" /\ entry = parser
    /\ src.extra = <<Kw(";")>>
    /\ LET s == Outcome(Fresh(stmt_list, tokens, 0))
       IN  Succeeded(s) /\ s.res.pos = Len(tokens) - 1 /\ s.res.value = src.ast
    /\ result = Failed

(* C2: on the tokens of an arithmetic expression aexp() returns the AST of *)
(* the reference grammar: * and / bind tighter than + and -, operators of  *)
(* one level associate to the left, a parenthesized expression is a term;  *)
(* so for 2*3+4, 2+3*4 and 2*(3+4).                                        *)
AexpByReference ==
    pc = "done" /\ entry = aexp =>
        LET two == IntAexp(PyInt(2))
            three == IntAexp(PyInt(3))
            four == IntAexp(PyInt(4))
        IN  /\ (Intact(src) /\ IsAexp(src.ast) => result = Ok(src.ast, Len(tokens)))
            /\ (tokens = <<IntTok("2"), Kw("*"), IntTok("3"), Kw("+"), IntTok("4")>>
                  => result = Ok(BinopAexp(PyStr("+"),
                                    BinopAexp(PyStr("*"), two, three), four), 5))
            /\ (tokens = <<IntTok("2"), Kw("+"), IntTok("3"), Kw("*"), IntTok("4")>>
                  => result = Ok(BinopAexp(PyStr("+"), two,
                                    BinopAexp(PyStr("*"), three, four)), 5))
            /\ (tokens = <<IntTok("2"), Kw("*"), Kw("("), IntTok("3"), Kw("+"),
                           IntTok("4"), Kw(")")>>
                  => result = Ok(BinopAexp(PyStr("*"), two,
                                    BinopAexp(PyStr("+"), three, four)), 7))

(* aexp() parsed 2*(3+4) *)
GroupedSumParsed ==
    /\ pc = "done" /\ entry = aexp
    /\ tokens = <<IntTok("2"), Kw("*"), Kw("("), IntTok("3"), Kw("+"),
                  IntTok("4"), Kw(")")>>
    /\ result = Ok(BinopAexp(PyStr("*"), IntAexp(PyInt(2)),
                       BinopAexp(PyStr("+"), IntAexp(PyInt(3)), IntAexp(PyInt(4)))), 7)

RECURSIVE NoRightNesting(_)
(* No CompoundStatement of statement v has a CompoundStatement as its      *)
(* second statement                                                        *)
NoRightNesting(v) ==
    CASE v.t = "CompoundStatement" ->
           /\ v.second.t # "CompoundStatement"
           /\ NoRightNesting(v.first) /\ NoRightNesting(v.second)
      [] v.t = "IfStatement" ->
           NoRightNesting(v.true_stmt) /\ NoRightNesting(v.false_stmt)
      [] v.t = "WhileStatement" -> NoRightNesting(v.body)
      [] OTHER -> TRUE

RECURSIVE TopStatements(_)
(* The statements s1, ..., sn of a left-nested statement list *)
TopStatements(v) ==
    IF v.t = "CompoundStatement"
    THEN Append(TopStatements(v.first), v.second)
    ELSE <<v>>

(* C3: on s1 ; ... ; sn stmt_list() returns the left-nested tree           *)
(* Compound(...Compound(Compound(s1, s2), s3)..., sn), never a right-nested *)
(* one, and s1 itself when n = 1; so for x:=1;y:=2;z:=3.                    *)
StmtListLeftNested ==
    pc = "done" /\ entry = stmt_list =>
        LET x1 == AssignStatement(PyStr("x"), IntAexp(PyInt(1)))
            y2 == AssignStatement(PyStr("y"), IntAexp(PyInt(2)))
            z3 == AssignStatement(PyStr("z"), IntAexp(PyInt(3)))
        IN  /\ (Succeeded(result) => NoRightNesting(result.res.value))
            /\ (Intact(src) /\ IsStmt(src.ast) =>
                  /\ result = Ok(src.ast, Len(tokens))
                  /\ (Len(TopStatements(src.ast)) = 1
                        => result.res.value.t # "CompoundStatement"))
            /\ (tokens = <<IdTok("x"), Kw(":="), IntTok("1"), Kw(";"),
                           IdTok("y"), Kw(":="), IntTok("2"), Kw(";"),
                           IdTok("z"), Kw(":="), IntTok("3")>>
                  => result = Ok(CompoundStatement(CompoundStatement(x1, y2), z3), 11))

(* stmt_list() parsed a list of three or more statements *)
ThreeStatementsParsed ==
    /\ pc = "done" /\ entry = stmt_list
    /\ Intact(src) /\ IsStmt(src.ast)
    /\ Len(TopStatements(src.ast)) >= 3
    /\ Succeeded(result)
    /\ result.res.value.t = "CompoundStatement"
    /\ result.res.value.first.t = "CompoundStatement"

(* C4: in bexp() not binds tighter than and, and tighter than or:          *)
(* r1 and r2 or r3 is Or(And(r1, r2), r3), r1 or r2 and r3 is              *)
(* Or(r1, And(r2, r3)), not r1 and r2 is And(Not(r1), r2), and k nots      *)
(* before a term are k nested NotBexp around it.                           *)
BexpByReference ==
    pc = "done" /\ entry = bexp =>
        LET r12 == <<IntTok("1"), Kw("<"), IntTok("2")>>
            r23 == <<IntTok("2"), Kw("<"), IntTok("3")>>
            r34 == <<IntTok("3"), Kw("<"), IntTok("4")>>
        IN  /\ (Intact(src) /\ IsBexp(src.ast) => result = Ok(src.ast, Len(tokens)))
            /\ (tokens = r12 \o <<Kw("and")>> \o r23 \o <<Kw("or")>> \o r34
                  => result = Ok(OrBexp(AndBexp(Rel("<", 1, 2), Rel("<", 2, 3)),
                                        Rel("<", 3, 4)), 11))
            /\ (tokens = <<Kw("not")>> \o r23
                  => result = Ok(NotBexp(Rel("<", 2, 3)), 4))
            /\ (tokens = <<Kw("not"), Kw("not")>> \o r12 \o <<Kw("and")>>
                           \o <<IdTok("x"), Kw(">="), IntTok("3")>>
                  => result = Ok(AndBexp(NotBexp(NotBexp(Rel("<", 1, 2))),
                                         RelopBexp(PyStr(">="), VarAexp(PyStr("x")),
                                                   IntAexp(PyInt(3)))), 9))

(* bexp() parsed b1 or b2 and b3, written without parentheses around      *)
(* b2 and b3, to Or(b1, And(b2, b3))                                       *)
OrOfAndParsed ==
    /\ pc = "done" /\ entry = bexp
    /\ Intact(src) /\ src.style = "min"
    /\ src.ast.t = "OrBexp" /\ src.ast.right.t = "AndBexp"
    /\ tokens = Syntax(src.ast.left, FALSE) \o <<Kw("or")>>
                  \o Syntax(src.ast.right.left, FALSE) \o <<Kw("and")>>
                  \o Syntax(src.ast.right.right, FALSE)
    /\ result = Ok(src.ast, Len(tokens))

RECURSIVE OwnElse(_, _, _)
(* Whether the statement that begins at tokens[1] has an 'else' of its     *)
(* own: one at nesting depth 1, counting if/while ... end from index i at  *)
(* depth d                                                                 *)
OwnElse(ts, i, d) ==
    IF i > Len(ts) THEN FALSE
    ELSE CASE ts[i] \in {Kw("if"), Kw("while")} -> OwnElse(ts, i + 1, d + 1)
           [] ts[i] = Kw("end") -> OwnElse(ts, i + 1, d - 1)
           [] ts[i] = Kw("else") /\ d = 1 -> TRUE
           [] OTHER -> OwnElse(ts, i + 1, d)

(* C5: if_stmt() on if b then S end returns IfStatement(b, S, None), on    *)
(* if b then S1 else S2 end it returns IfStatement(b, S1, S2) with S2 the   *)
(* parsed statement list, never None; the closing end is consumed.         *)
IfElseOptional ==
    pc = "done" /\ entry = if_stmt /\ Intact(src) /\ src.ast.t = "IfStatement" =>
        /\ result = Ok(src.ast, Len(tokens))
        /\ tokens[result.res.pos] = Kw("end")
        /\ result.res.value.t = "IfStatement"
        /\ IF OwnElse(tokens, 1, 0)
           THEN IsStmt(result.res.value.false_stmt)
           ELSE result.res.value.false_stmt = None

(* if_stmt() parsed an if with an else branch that is a statement list *)
IfWithElseParsed ==
    /\ pc = "done" /\ entry = if_stmt /\ Intact(src)
    /\ OwnElse(tokens, 1, 0)
    /\ Succeeded(result)
    /\ result.res.value.t = "IfStatement"
    /\ result.res.value.false_stmt.t = "CompoundStatement"

----------------------------------------------------------------------------
(* Properties of the calls of the sub-parsers *)

(* C6: an alternative that fails at position i consumes nothing: the      *)
(* result of an alternation at i is that of its first succeeding branch    *)
(* called alone at i; so bexp_term on a parenthesized boolean expression,  *)
(* where bexp_relop fails after its aexp_group matched tokens, succeeds    *)
(* through bexp_group from position 0 with bexp_group's own result.        *)
NoConsumptionOnFailure ==
    pc = "done" =>
        /\ entry.k = "Alternate" =>
              LET first == Outcome(Fresh(entry.left, tokens, start))
                  second == Outcome(Fresh(entry.right, tokens, start))
              IN  result = IF Succeeded(first) THEN first ELSE second
        /\ entry = bexp_term /\ start = 0 /\ Intact(src) /\ IsBexp(src.ast)
             /\ src.style \in {"group", "nest"} =>
              /\ result = Ok(src.ast, Len(tokens))
              /\ result = Outcome(Fresh(bexp_group, tokens, 0))
              /\ Outcome(Fresh(bexp_relop, tokens, 0)) = Failed

(* bexp_term parsed (1 < 2) through bexp_group after bexp_relop failed,    *)
(* '(' and an arithmetic expression having matched inside it               *)
GroupAfterRelopFailed ==
    /\ pc = "done" /\ entry = bexp_term /\ start = 0
    /\ tokens = <<Kw("("), IntTok("1"), Kw("<"), IntTok("2"), Kw(")")>>
    /\ Outcome(Fresh(Concat(keyword("("), Lazy("aexp")), tokens, 0))
         = Ok(PyTuple(PyStr("("), IntAexp(PyInt(1))), 2)
    /\ Outcome(Fresh(bexp_relop, tokens, 0)) = Failed
    /\ result = Ok(Rel("<", 1, 2), 5)

RECURSIVE FoldPositions(_, _, _)
(* The positions after each iteration of the fold of Exp object p that     *)
(* follows a seed ending at pos                                            *)
FoldPositions(p, toks, pos) ==
    LET next == Outcome(Fresh(Concat(p.separator, p.parser), toks, pos))
    IN  IF ~Succeeded(next) THEN <<>>
        ELSE IF next.res.pos <= pos THEN <<next.res.pos>>
        ELSE <<next.res.pos>> \o FoldPositions(p, toks, next.res.pos)

(* C8: a parser that succeeds returns a position not before the one it     *)
(* was given, the same position when it matched no token; so at every      *)
(* step of a parse: after the left part of a sequence, after the seed and  *)
(* after each iteration of a separator fold.                               *)
PositionMonotone ==
    pc = "done" /\ Succeeded(result) =>
        /\ start <= result.res.pos /\ result.res.pos <= Len(tokens)
        /\ entry.k \in {"Reserved", "Tag"} => result.res.pos = start + 1
        /\ entry.k = "Opt" /\ ~Succeeded(Outcome(Fresh(entry.parser, tokens, start)))
             => result.res.pos = start
        /\ entry.k = "Concat" =>
              LET left == Outcome(Fresh(entry.left, tokens, start))
              IN  /\ Succeeded(left)
                  /\ start <= left.res.pos /\ left.res.pos <= result.res.pos
        /\ entry.k = "Exp" =>
              LET seed == Outcome(Fresh(entry.parser, tokens, start))
                  steps == <<seed.res.pos>> \o FoldPositions(entry, tokens, seed.res.pos)
              IN  /\ Succeeded(seed) /\ start <= seed.res.pos
                  /\ \A j \in 1..(Len(steps) - 1) : steps[j] < steps[j + 1]
                  /\ steps[Len(steps)] = result.res.pos

(* A separator fold ran two iterations or more from a position past 0 *)
FoldAdvanced ==
    /\ pc = "done" /\ Succeeded(result) /\ start > 0
    /\ entry.k = "Exp"
    /\ Len(FoldPositions(entry, tokens,
                         Outcome(Fresh(entry.parser, tokens, start)).res.pos)) >= 2

----------------------------------------------------------------------------
(* Properties of a grammar object that is kept *)

(* C7: a call of a grammar object whose Lazy objects earlier calls have    *)
(* resolved, on the same or on other token sequences, returns what a call  *)
(* of a freshly built grammar returns on the same tokens: the same AST and *)
(* position, or failure both.                                              *)
ReuseAgrees ==
    pc = "done" => result = Outcome(imp_parse(tokens))

(* The kept grammar parsed a program that needs Lazy objects, after calls  *)
(* on other token sequences had resolved Lazy objects it does not need     *)
ReusedAfterOtherTokens ==
    /\ pc = "done" /\ Succeeded(result)
    /\ LET fresh == DOMAIN imp_parse(tokens).cache
       IN  /\ fresh # {}
           /\ fresh \subseteq DOMAIN cache
           /\ fresh # DOMAIN cache

----------------------------------------------------------------------------
(* Termination of imp_parse *)

Zeros(path) == Cardinality({i \in 1..Len(path) : path[i] = 0})

(* The number of Lazy objects on the longest chain of Lazy objects that    *)
(* were called, each inside the parser the one before resolved to          *)
LazyDepth(c) ==
    IF DOMAIN c = {} THEN 0
    ELSE CHOOSE d \in {Zeros(q) + 1 : q \in DOMAIN c} :
            \A q \in DOMAIN c : Zeros(q) + 1 <= d

(* The nesting depth of a token sequence: the most openers that are open   *)
(* at one point, a 'not' staying open                                      *)
Level(toks, i) ==
    Cardinality({j \in 1..i : toks[j] \in {Kw("("), Kw("not"), Kw("if"), Kw("while")}})
    - Cardinality({j \in 1..i : toks[j] \in {Kw(")"), Kw("end")}})

Nesting(toks) ==
    CHOOSE d \in {Level(toks, i) : i \in 0..Len(toks)} :
        \A i \in 0..Len(toks) : Level(toks, i) <= d

(* C9: imp_parse(tokens) eventually returns on every token sequence, and   *)
(* the recursion through Lazy references is no deeper than the input is    *)
(* nested: every Lazy reference is called after a token was consumed and   *)
(* every iteration of a separator fold consumes tokens.                    *)
ImpParseTerminates ==
    /\ (pc = "called") ~> (pc = "done")
    /\ [](pc = "done" => LazyDepth(imp_parse(tokens).cache) <= Nesting(tokens))

(* imp_parse returned an AST for a program nested two deep or more *)
NestedProgramParsed ==
    /\ pc = "done" /\ Succeeded(result)
    /\ Nesting(tokens) >= 2
    /\ LazyDepth(imp_parse(tokens).cache) >= 2

----------------------------------------------------------------------------
(* Failures *)

RECURSIVE Complete(_)
(* v is an AST with every operand, condition and body in place *)
Complete(v) ==
    CASE v.t = "IntAexp" -> v.i.t = "int"
      [] v.t = "VarAexp" -> v.name.t = "str"
      [] v.t = "BinopAexp" ->
           /\ IsAexp(v.left) /\ IsAexp(v.right)
           /\ Complete(v.left) /\ Complete(v.right)
      [] v.t = "RelopBexp" ->
           /\ IsAexp(v.left) /\ IsAexp(v.right)
           /\ Complete(v.left) /\ Complete(v.right)
      [] v.t \in {"AndBexp", "OrBexp"} ->
           /\ IsBexp(v.left) /\ IsBexp(v.right)
           /\ Complete(v.left) /\ Complete(v.right)
      [] v.t = "NotBexp" -> IsBexp(v.exp) /\ Complete(v.exp)
      [] v.t = "AssignStatement" ->
           v.name.t = "str" /\ IsAexp(v.aexp) /\ Complete(v.aexp)
      [] v.t = "CompoundStatement" ->
           /\ IsStmt(v.first) /\ IsStmt(v.second)
           /\ Complete(v.first) /\ Complete(v.second)
      [] v.t = "IfStatement" ->
           /\ IsBexp(v.condition) /\ Complete(v.condition)
           /\ IsStmt(v.true_stmt) /\ Complete(v.true_stmt)
           /\ v.false_stmt = None
              \/ (IsStmt(v.false_stmt) /\ Complete(v.false_stmt))
      [] v.t = "WhileStatement" ->
           /\ IsBexp(v.condition) /\ Complete(v.condition)
           /\ IsStmt(v.body) /\ Complete(v.body)
      [] OTHER -> FALSE

(* ts without its parentheses *)
Strip(ts) == SelectSeq(ts, LAMBDA t : t \notin {Kw("("), Kw(")")})

(* The token removed from a damaged input *)
Dropped(in) == Written(in.ast, in.style)[in.drop]

(* C10: a call never raises: it returns the failure value, carrying no     *)
(* AST, or a complete AST that accounts for every token consumed, and      *)
(* imp_parse a complete statement for all the tokens; process_logic gets   *)
(* 'and' and 'or' only.  A statement without its 'end', 'then', 'do' or    *)
(* ')' and a comparison without its right operand fail as a whole.         *)
NeverRaises ==
    pc = "done" =>
        /\ result.exc = ""
        /\ \/ result = Failed
           \/ /\ Succeeded(result)
              /\ Complete(result.res.value)
              /\ Strip(SubSeq(tokens, 1, result.res.pos))
                   = Strip(Syntax(result.res.value, FALSE))
        /\ entry = parser /\ Succeeded(result) =>
              IsStmt(result.res.value) /\ result.res.pos = Len(tokens)
        /\ /\ entry \in {stmt, parser} /\ src.drop # 0
           /\ src.ast.t \in {"AssignStatement", "IfStatement", "WhileStatement"}
           /\ Dropped(src) \in {Kw("end"), Kw("then"), Kw("do"), Kw(")")}
           => result = Failed
        /\ /\ entry \in {bexp_relop, bexp} /\ src.drop # 0
           /\ src.ast.t = "RelopBexp"
           /\ src.ast.right.t \in {"IntAexp", "VarAexp"}
           => result = Failed

(* stmt failed on an if statement with an else branch whose closing 'end'  *)
(* is missing                                                              *)
MissingEndFails ==
    /\ pc = "done" /\ entry = stmt
    /\ src.ast.t = "IfStatement" /\ src.ast.false_stmt # None
    /\ src.drop = Len(Written(src.ast, src.style))
    /\ Dropped(src) = Kw("end")
    /\ result = Failed

============================================================================
